---- MODULE Spec2Model ----
(***************************************************************************)
(* PyCraftingCalculator: the recipe index (RecipeMapper) and the cost      *)
(* resolver (RecipeMapper.calculate_cost) with the Inventory / ItemStack   *)
(* operations they are built from.                                         *)
(*                                                                         *)
(* Python objects are mutable and shared by reference.  The model keeps    *)
(* the sharing the code creates: the stacks of the caller's target         *)
(* inventory are the very objects put on the work queue and, later, into   *)
(* cost; a non-empty cache passed by the caller is the inventory the       *)
(* resolver works on and returns.                                          *)
(*                                                                         *)
(* A chance is a float in the source.  Here it is an integer number of     *)
(* hundredths (100 is 1.0, 50 is 0.5, 0 is 0.0); the chances used are      *)
(* dyadic, so the float arithmetic of the source is exact on them.         *)
(***************************************************************************)
EXTENDS Integers, Sequences, FiniteSets, TLC

\* ------------------------------------------------------------------ bounds
\* Largest number of recipes passed to add_recipe and not removed again.
MaxRecipes == 3
\* Largest number of remove_recipe calls in one behaviour.
MaxRemoves == 1
\* Largest amount a stack may reach; a step that would exceed it is cut off.
MaxAmount == 70
\* Longest work queue; a step that would exceed it is cut off.
MaxQueue == 4

\* The largest amount an entry of the caller's inventory is let to reach.
MaxHeld == 12

\* The number of ItemStack objects a caller makes, and the largest factor a
\* stack is multiplied by.
MaxMade == 2

MaxFactor == 2

\* The number of loop iterations a whole call of calculate_cost is followed
\* for.
MaxSteps == 12

\* The number of lines the command loop reads.
MaxLines == 3

\* The number of enumerations of candidate recipes.
MaxEnums == 1

\* ------------------------------------------------------------------- items
\* The items, in the order Item's dataclass ordering (by name) gives them.
ItemOrder == <<"wood_log", "wood_plank", "wood_pulp">>

Items == {ItemOrder[i] : i \in 1..Len(ItemOrder)}

\* An ItemStack without its item: the item is the key it is stored under.
Stk(a, c) == [amount |-> a, chance |-> c]

\* An ItemStack as it travels on the queue.  tgt is TRUE when the object is
\* the stack object held by the caller's target inventory.
QStack(i, a, c, t) == [item |-> i, amount |-> a, chance |-> c, tgt |-> t]

\* The empty Inventory (a dict with no key).
EmptyInv == [i \in {} |-> Stk(0, 0)]

\* Inventory.__iter__: the keys in sorted order.
SortedKeys(inv) == SelectSeq(ItemOrder, LAMBDA i : i \in DOMAIN inv)

\* --------------------------------------------------------------- inventory
\* Inventory.contains
Contains(inv, item) == item \in DOMAIN inv

\* Inventory.add_item_stack: the inventory after the call.
AddItemStack_Overwrite(inv, item, st) ==
    IF st.amount <= 0 THEN inv
    ELSE [i \in DOMAIN inv \cup {item} |-> IF i = item THEN st ELSE inv[i]]

AddItemStack(inv, item, st) ==
    IF st.amount <= 0 THEN inv
    ELSE IF Contains(inv, item)
         THEN [inv EXCEPT ![item].amount = @ + st.amount]
         ELSE [i \in DOMAIN inv \cup {item} |-> IF i = item THEN st ELSE inv[i]]

\* Inventory.sub_item_stack: the amount it returns.
SubAmount_Asked(inv, item, amt) ==
    IF ~Contains(inv, item) THEN 0 ELSE amt

SubAmount(inv, item, amt) ==
    IF ~Contains(inv, item) THEN 0
    ELSE IF inv[item].amount <= amt THEN inv[item].amount ELSE amt

\* Inventory.sub_item_stack: the inventory after the call.
SubItemStack(inv, item, amt) ==
    IF ~Contains(inv, item) THEN inv
    ELSE LET left == inv[item].amount - SubAmount(inv, item, amt)
         IN  IF left <= 0
             THEN [i \in DOMAIN inv \ {item} |-> inv[i]]
             ELSE [inv EXCEPT ![item].amount = left]

\* ------------------------------------------------- inventory, by objects
\* The ItemStack objects a caller makes and passes to an Inventory.  The
\* inventory keeps the object it is given (line 65) and changes its amount
\* in place (lines 63 and 79), so an object and not a value is filed under
\* an item.
StackObj(i, a) == [item |-> i, amount |-> a, chance |-> 100]

StackPool ==
    <<StackObj("wood_log", 3), StackObj("wood_log", 2),
      StackObj("wood_plank", 4), StackObj("wood_plank", 0),
      StackObj("wood_log", -2)>>

StackIds == 1..Len(StackPool)

\* The amount an inventory holds of an item, 0 when it has no entry.
HeldAmount(st, h, i) == IF i \in DOMAIN h THEN st[h[i]].amount ELSE 0

\* Inventory.add_item_stack with stack object s: the objects and the
\* inventory after the call, and the value returned, which is read from the
\* object after the merge (line 66).
AddObject(st, h, s) ==
    LET i == st[s].item
    IN  IF st[s].amount <= 0 THEN [stacks |-> st, held |-> h, ret |-> 0]
        ELSE IF i \in DOMAIN h
        THEN LET merged == [st EXCEPT ![h[i]].amount = @ + st[s].amount]
             IN  [stacks |-> merged, held |-> h, ret |-> merged[s].amount]
        ELSE [stacks |-> st,
              held |-> [k \in DOMAIN h \cup {i} |-> IF k = i THEN s ELSE h[k]],
              ret |-> st[s].amount]

\* min(target.amount, i_stack.amount) (line 78)
Taken_Asked(have, asked) == asked

Taken(have, asked) == IF have <= asked THEN have ELSE asked

\* Inventory.sub_item_stack with stack object s.
SubObject_Keep(st, h, s) ==
    LET i == st[s].item
    IN  IF i \notin DOMAIN h THEN [stacks |-> st, held |-> h, ret |-> 0]
        ELSE LET amt == Taken(st[h[i]].amount, st[s].amount)
             IN  [stacks |-> [st EXCEPT ![h[i]].amount = @ - amt],
                  held |-> h, ret |-> amt]

SubObject(st, h, s) ==
    LET i == st[s].item
    IN  IF i \notin DOMAIN h THEN [stacks |-> st, held |-> h, ret |-> 0]
        ELSE LET amt == Taken(st[h[i]].amount, st[s].amount)
                 left == [st EXCEPT ![h[i]].amount = @ - amt]
             IN  [stacks |-> left,
                  held |-> IF left[h[i]].amount <= 0
                           THEN [k \in DOMAIN h \ {i} |-> h[k]]
                           ELSE h,
                  ret |-> amt]

NoCall == [kind |-> "none", stack |-> 0, amount |-> 0,
           before |-> [i \in Items |-> 0], had |-> {}]

NoOp == [kind |-> "none", stack |-> 0, item |-> "", amount |-> 0,
         before |-> [i \in Items |-> 0], had |-> {}, prior |-> NoCall]

\* ------------------------------------------------- items with metadata
\* An Item as the dataclass holds it (proper_name left out: it takes no part
\* in comparisons and is never set by from_string).
ItemRec(n, m, any) == [name |-> n, metadata |-> m, metadata_any |-> any]

\* An item string "<name:meta>", as the two groups the regex of line 26
\* finds in it; meta is "" when the string has no metadata part.
ItemString(n, meta) == [name |-> n, meta |-> meta]

\* int() of a metadata string of one digit.
DigitValue(text) == IF text = "1" THEN 1 ELSE 0

\* Item.from_string
ItemFromString(str) ==
    LET text == IF str.meta = "" THEN "0" ELSE str.meta
    IN  IF text = "*" THEN ItemRec(str.name, 0, TRUE)
        ELSE ItemRec(str.name, DigitValue(text), FALSE)

\* Item.__eq__ (dataclass): the fields with compare=True are name, metadata
\* and metadata_any (field(default=False, hash=False) leaves compare on).
ItemEq_NameMetadata(a, b) == a.name = b.name /\ a.metadata = b.metadata

ItemEq(a, b) ==
    /\ a.name = b.name
    /\ a.metadata = b.metadata
    /\ a.metadata_any = b.metadata_any

\* Item.__hash__ (unsafe_hash): the fields with hash on are name and
\* metadata.
ItemHash(a) == <<a.name, a.metadata>>

\* Item.__lt__ (order=True): the tuples (name, metadata, metadata_any) are
\* compared; the names of the pool are single letters in alphabetical order.
NameRank(n) == IF n = "x" THEN 1 ELSE 2

ItemLess(a, b) ==
    \/ NameRank(a.name) < NameRank(b.name)
    \/ /\ a.name = b.name
       /\ \/ a.metadata < b.metadata
          \/ a.metadata = b.metadata /\ ~a.metadata_any /\ b.metadata_any

\* An ItemStack object with all its fields.
FullStack(i, a, c, u) == [item |-> i, amount |-> a, chance |-> c, consumed |-> u]

\* ItemStack.__mul__: a new ItemStack of the item, the amount times the
\* factor and the chance; consumed takes its default.
Mul_ChanceToo(s, n) == FullStack(s.item, s.amount * n, s.chance * n, TRUE)

Mul(s, n) == FullStack(s.item, s.amount * n, s.chance, TRUE)

\* The keys of a dict that a lookup with an Item finds: same hash, equal.
DictKeys(d, item) ==
    {k \in DOMAIN d : ItemHash(k) = ItemHash(item) /\ ItemEq(k, item)}

\* Inventory.add_item_stack on an inventory keyed by Items.
FileStack(d, s) ==
    IF s.amount <= 0 THEN d
    ELSE IF DictKeys(d, s.item) # {}
         THEN [k \in DOMAIN d |->
                  IF k \in DictKeys(d, s.item) THEN d[k] + s.amount ELSE d[k]]
         ELSE [k \in DOMAIN d \cup {s.item} |->
                  IF k = s.item THEN s.amount ELSE d[k]]

\* The stacks a caller makes: ItemStack(Item.from_string(text), amount,
\* chance, consumed).
StackInputs ==
    {[str |-> ItemString("x", "0"), amount |-> 1, chance |-> 100, consumed |-> TRUE],
     [str |-> ItemString("x", "*"), amount |-> 2, chance |-> 100, consumed |-> TRUE],
     [str |-> ItemString("x", ""), amount |-> 3, chance |-> 50, consumed |-> FALSE],
     [str |-> ItemString("x", "1"), amount |-> 1, chance |-> 100, consumed |-> TRUE],
     [str |-> ItemString("y", "*"), amount |-> 2, chance |-> 0, consumed |-> FALSE]}

NoMul == [of |-> 0, by |-> 0, was |-> FullStack(ItemRec("", 0, FALSE), 0, 0, TRUE),
          new |-> 0]

\* ------------------------------------------------ interned item registry
\* craftingCalc.Item: one object per name, held in Item.registry.  An object
\* is its identity and its recipe attribute; a recipe is a name or None.
None == "None"

RecipeNames == {"r1", "r2"}

ItemNames == {"a", "b", "c"}

Interned(id, recipe) == [id |-> id, recipe |-> recipe]

\* Item.set_recipe: a recipe of None leaves the attribute alone.
SetRecipe_Always(cur, recipe) == recipe

SetRecipe(cur, recipe) == IF recipe # None THEN recipe ELSE cur

\* Item(name, recipe): __new__, then __init__ on the object it returns.  A
\* raise in __new__ ends the call before __init__.
Construct(reg, name, recipe) ==
    IF name \in DOMAIN reg
    THEN IF recipe # None /\ reg[name].recipe # None
         THEN [registry |-> reg, raised |-> "DuplicateRecipeError", id |-> 0]
         ELSE LET inNew == SetRecipe(reg[name].recipe, recipe)
                  inInit == SetRecipe(inNew, recipe)
              IN  [registry |-> [n \in DOMAIN reg |->
                                    IF n = name THEN Interned(reg[n].id, inInit)
                                    ELSE reg[n]],
                   raised |-> "",
                   id |-> reg[name].id]
    ELSE LET id == Cardinality(DOMAIN reg) + 1
         IN  [registry |-> [n \in DOMAIN reg \cup {name} |->
                               IF n = name THEN Interned(id, SetRecipe(None, recipe))
                               ELSE reg[n]],
              raised |-> "",
              id |-> id]

NoGot == [name |-> "", recipe |-> None, raised |-> "", id |-> 0,
          before |-> <<>>]

\* ----------------------------------------------------------------- recipes
\* Recipe objects the callers construct.  1 and 2 are the recipes of main();
\* the others cover a recipe equal by value to 1 (3), a second producer at
\* the same priority (4, with a catalyst input), two recipes forming a cycle
\* (5, 6), a disabled recipe (7), outputs with chance below 1 (8) and a
\* recipe without inputs (9).
Rcp(ins, outs, en, prio) ==
    [inputs |-> ins, outputs |-> outs, enabled |-> en, priority |-> prio]

One(i, a, c) == [k \in {i} |-> Stk(a, c)]

Two(i, a, c, j, b, d) == [k \in {i, j} |-> IF k = i THEN Stk(a, c) ELSE Stk(b, d)]

RecipePool ==
    <<Rcp(One("wood_log", 1, 100), One("wood_plank", 4, 100), TRUE, 0),
      Rcp(One("wood_log", 1, 100),
          Two("wood_plank", 6, 100, "wood_pulp", 1, 100), TRUE, 1),
      Rcp(One("wood_log", 2, 100), One("wood_plank", 3, 100), TRUE, 0),
      Rcp(Two("wood_log", 1, 100, "wood_pulp", 1, 0),
          One("wood_plank", 2, 100), TRUE, 0),
      Rcp(One("wood_plank", 1, 100), One("wood_log", 1, 100), TRUE, 0),
      Rcp(One("wood_log", 1, 100), One("wood_plank", 1, 100), TRUE, 2),
      Rcp(One("wood_log", 2, 100),
          Two("wood_plank", 1, 100, "wood_pulp", 1, 100), FALSE, 3),
      Rcp(One("wood_pulp", 1, 100),
          Two("wood_log", 2, 50, "wood_plank", 1, 0), TRUE, 0),
      Rcp(EmptyInv, One("wood_pulp", 1, 100), TRUE, 0)>>

RecipeIds == 1..Len(RecipePool)

\* Recipe.__eq__ (dataclass, order=True): the tuples (input_item_stacks,
\* output_item_stacks, priority) are compared; enabled has compare=False.
\* Two Inventories are equal as dicts, and two ItemStacks are equal when
\* their items are (amount and chance have compare=False), so only the key
\* sets and the priority count.
RecipeEq(r, s) ==
    /\ DOMAIN RecipePool[r].inputs = DOMAIN RecipePool[s].inputs
    /\ DOMAIN RecipePool[r].outputs = DOMAIN RecipePool[s].outputs
    /\ RecipePool[r].priority = RecipePool[s].priority

\* Recipe.get_output_stack
GetOutputStack(r, item) == RecipePool[r].outputs[item]

\* ItemStack.effective_amount, in hundredths.
EffectiveAmount(st) == st.amount * st.chance

\* ------------------------------------------------------------- the index
\* set.add on a defaultdict(set) entry: the key is created when missing and
\* the recipe is left out when an equal one is already a member.
TableAdd(table, item, r) ==
    LET old == IF item \in DOMAIN table THEN table[item] ELSE {}
        new == IF \E s \in old : RecipeEq(s, r) THEN old ELSE old \cup {r}
    IN  [i \in DOMAIN table \cup {item} |-> IF i = item THEN new ELSE table[i]]

RECURSIVE TableAddAll(_, _, _)
TableAddAll(table, items, r) ==
    IF items = <<>> THEN table
    ELSE TableAddAll(TableAdd(table, Head(items), r), Tail(items), r)

\* set.remove on a defaultdict(set) entry: the key is created when missing,
\* the member equal to the recipe is removed, and KeyError (ok = FALSE) is
\* raised when there is none.
TableRemove(table, item, r) ==
    LET old == IF item \in DOMAIN table THEN table[item] ELSE {}
        new == {s \in old : ~RecipeEq(s, r)}
    IN  [table |-> [i \in DOMAIN table \cup {item} |->
                        IF i = item THEN new ELSE table[i]],
         ok |-> new # old]

\* The loops of remove_recipe: they stop at the first KeyError.
RECURSIVE TableRemoveAll(_, _, _)
TableRemoveAll(table, items, r) ==
    IF items = <<>> THEN [table |-> table, ok |-> TRUE]
    ELSE LET one == TableRemove(table, Head(items), r)
         IN  IF one.ok THEN TableRemoveAll(one.table, Tail(items), r) ELSE one

\* The enabled recipes of back_table[item] (the filter of line 94).
EnabledProducers(table, item) ==
    {r \in table[item] : RecipePool[r].enabled}

\* The recipes left by the filter of line 96: the enabled producers at the
\* maximum priority.
BestProducers_AnyPriority(table, item) == EnabledProducers(table, item)

BestProducers(table, item) ==
    {r \in EnabledProducers(table, item) :
        \A s \in EnabledProducers(table, item) :
            RecipePool[s].priority <= RecipePool[r].priority}

\* ---------------------------------------------------------------- the trie
\* The trie as its parent nodes: each is named by the items on the way from
\* the root to it (the root is <<>>) and holds its list of children in
\* order, a branch entry per BranchNode and a leaf entry per LeafNode.
Branch(item) == [kind |-> "branch", item |-> item, recipe |-> 0]

Leaf(r) == [kind |-> "leaf", item |-> "", recipe |-> r]

\* RecipeTrie.__init__: a root without children.
EmptyTrie == [p \in {<<>>} |-> <<>>]

\* The node above a BranchNode.
Parent(p) == SubSeq(p, 1, Len(p) - 1)

\* ParentNode.add_child
AddChild(trie, p, e) ==
    [x \in DOMAIN trie |-> IF x = p THEN Append(trie[x], e) ELSE trie[x]]

\* The test of line 323: some child is a BranchNode with this item.
HasBranch(trie, p, item) ==
    \E k \in DOMAIN trie[p] :
        trie[p][k].kind = "branch" /\ trie[p][k].item = item

\* The positions of the leaves of a node whose recipe equals r (the test of
\* lines 333 and 394).
LeavesEqual(trie, p, r) ==
    {k \in DOMAIN trie[p] :
        trie[p][k].kind = "leaf" /\ RecipeEq(trie[p][k].recipe, r)}

\* The first of a non-empty set of positions.
First(ks) == CHOOSE k \in ks : \A j \in ks : k <= j

\* RecipeTrie.add_recipe, lines 316-330: walk down the inputs in iteration
\* order, creating the branch nodes that are missing.
RECURSIVE Descend(_, _, _)
Descend(trie, p, items) ==
    IF items = <<>> THEN [trie |-> trie, node |-> p]
    ELSE LET q == Append(p, Head(items))
         IN  IF HasBranch(trie, p, Head(items))
             THEN Descend(trie, q, Tail(items))
             ELSE Descend([x \in DOMAIN trie \cup {q} |->
                              IF x = q THEN <<>>
                              ELSE IF x = p THEN Append(trie[p], Branch(Head(items)))
                              ELSE trie[x]],
                          q, Tail(items))

\* RecipeTrie.add_recipe: the trie after the call, and the leaf it returns
\* (the node it hangs from and the recipe object it holds).
TrieAddRecipe_Always(trie, r) ==
    LET w == Descend(trie, <<>>, SortedKeys(RecipePool[r].inputs))
    IN  [trie |-> AddChild(w.trie, w.node, Leaf(r)),
         leaf |-> [node |-> w.node, recipe |-> r]]

TrieAddRecipe(trie, r) ==
    LET w == Descend(trie, <<>>, SortedKeys(RecipePool[r].inputs))
        ks == LeavesEqual(w.trie, w.node, r)
    IN  IF ks # {}
        THEN [trie |-> w.trie,
              leaf |-> [node |-> w.node,
                        recipe |-> w.trie[w.node][First(ks)].recipe]]
        ELSE [trie |-> AddChild(w.trie, w.node, Leaf(r)),
              leaf |-> [node |-> w.node, recipe |-> r]]

\* The children of a node that are not leaves, as nodes (lines 388-390).
BranchChildren(trie, p) ==
    LET sel == SelectSeq(trie[p], LAMBDA e : e.kind = "branch")
    IN  [k \in 1..Len(sel) |-> Append(p, sel[k].item)]

NotFound == [found |-> FALSE, node |-> <<>>]

\* find_recipe_node, lines 377-392: breadth-first from the base, the base
\* included, to the first BranchNode with the item.
RECURSIVE FindBranch(_, _, _)
FindBranch(trie, queue, item) ==
    IF queue = <<>> THEN NotFound
    ELSE LET p == Head(queue)
         IN  IF p # <<>> /\ p[Len(p)] = item
             THEN [found |-> TRUE, node |-> p]
             ELSE FindBranch(trie, Tail(queue) \o BranchChildren(trie, p), item)

\* find_recipe_node, the loop of line 376 over the inputs.
RECURSIVE FindBase(_, _, _)
FindBase(trie, base, items) ==
    IF items = <<>> THEN [found |-> TRUE, node |-> base]
    ELSE LET f == FindBranch(trie, <<base>>, Head(items))
         IN  IF f.found THEN FindBase(trie, f.node, Tail(items)) ELSE NotFound

\* RecipeTrie.find_recipe_node: found is FALSE for None, else the leaf is
\* child number index of node.
FindRecipeNode_AnyLeaf(trie, r) ==
    LET b == FindBase(trie, <<>>, SortedKeys(RecipePool[r].inputs))
        ks == {k \in DOMAIN trie[b.node] : trie[b.node][k].kind = "leaf"}
    IN  IF b.found /\ ks # {}
        THEN [found |-> TRUE, node |-> b.node, index |-> First(ks)]
        ELSE [found |-> FALSE, node |-> <<>>, index |-> 0]

FindRecipeNode(trie, r) ==
    LET b == FindBase(trie, <<>>, SortedKeys(RecipePool[r].inputs))
    IN  IF b.found /\ LeavesEqual(trie, b.node, r) # {}
        THEN [found |-> TRUE, node |-> b.node,
              index |-> First(LeavesEqual(trie, b.node, r))]
        ELSE [found |-> FALSE, node |-> <<>>, index |-> 0]

\* The dataclass __eq__ list.remove applies to two children of one node:
\* nodes of different classes differ, leaves are equal when their recipes
\* are, branches when their items are (and their children lists).
ChildEq(e, f) ==
    /\ e.kind = f.kind
    /\ e.kind = "leaf" => RecipeEq(e.recipe, f.recipe)
    /\ e.kind = "branch" => e.item = f.item

\* list.remove: the list without its first element equal to e.
ListRemove(children, e) ==
    LET k == First({j \in DOMAIN children : ChildEq(children[j], e)})
    IN  SubSeq(children, 1, k - 1) \o SubSeq(children, k + 1, Len(children))

\* ParentNode.remove_child and prune: the child is taken off the list, and
\* a node left without children is removed from its own parent in turn;
\* RootNode.remove_from_parent does nothing.
RECURSIVE RemoveChild(_, _, _)
RemoveChild_NoPrune(trie, p, e) ==
    [x \in DOMAIN trie |-> IF x = p THEN ListRemove(trie[x], e) ELSE trie[x]]

RemoveChild(trie, p, e) ==
    LET t == [x \in DOMAIN trie |->
                 IF x = p THEN ListRemove(trie[x], e) ELSE trie[x]]
    IN  IF Len(t[p]) < 1 /\ p # <<>>
        THEN RemoveChild([x \in DOMAIN t \ {p} |-> t[x]], Parent(p),
                         Branch(p[Len(p)]))
        ELSE t

\* RecipeTrie.pop_recipe
TriePopRecipe_Keep(trie, r) == trie

TriePopRecipe(trie, r) ==
    LET f == FindRecipeNode(trie, r)
    IN  IF ~f.found THEN trie
        ELSE RemoveChild(trie, f.node, trie[f.node][f.index])

\* ------------------------------------------------------------ the resolver
\* math.ceil(a / b) for a >= 0, b > 0.
CeilDiv_Floor(a, b) == a \div b

CeilDiv(a, b) == (a + b - 1) \div b

\* number_of_crafts (line 105); need is stack.amount, out the output stack.
NumberOfCrafts(need, out) == CeilDiv(need * 100, EffectiveAmount(out))

\* ItemStack.__mul__ applied to every input, in iteration order (107-108).
ScaledInputs_Once(r, n) ==
    LET ins == RecipePool[r].inputs
        keys == SortedKeys(ins)
    IN  [k \in 1..Len(keys) |->
            QStack(keys[k], ins[keys[k]].amount, ins[keys[k]].chance, FALSE)]

ScaledInputs(r, n) ==
    LET ins == RecipePool[r].inputs
        keys == SortedKeys(ins)
    IN  [k \in 1..Len(keys) |->
            QStack(keys[k], ins[keys[k]].amount * n, ins[keys[k]].chance, FALSE)]

\* The excess of the demanded item put into the cache (118-120).
Excess_All(produced, need) == produced

Excess(produced, need) == produced - need

\* One pass of the loop over the outputs (110-120).
OutputToCache(c, r, o, item, need, n) ==
    LET out == RecipePool[r].outputs[o]
        scaled == Stk(out.amount * n, out.chance)
    IN  IF o # item THEN AddItemStack(c, o, scaled)
        ELSE IF Excess(scaled.amount, need) > 0
             THEN AddItemStack(c, item, Stk(Excess(scaled.amount, need), 100))
             ELSE c

RECURSIVE OutputsToCache(_, _, _, _, _, _)
OutputsToCache(c, r, outs, item, need, n) ==
    IF outs = <<>> THEN c
    ELSE OutputsToCache(OutputToCache(c, r, Head(outs), item, need, n),
                        r, Tail(outs), item, need, n)

\* The target inventory with the amount of one of its stack objects changed.
SetAmount(tg, item, amt) ==
    [k \in DOMAIN tg |->
        IF tg[k].item = item THEN [tg[k] EXCEPT !.amount = amt] ELSE tg[k]]

\* The contents of an inventory kept as a sequence of its stacks.
AsInv(tg) ==
    [i \in {tg[k].item : k \in DOMAIN tg} |->
        LET k == CHOOSE k \in DOMAIN tg : tg[k].item = i
        IN  Stk(tg[k].amount, tg[k].chance)]

\* target.values() (line 76): the target's own stack objects, in the order
\* the caller inserted them.
TargetValues(tg) ==
    [k \in DOMAIN tg |-> QStack(tg[k].item, tg[k].amount, tg[k].chance, TRUE)]

\* calculate_cost, line 80: a demand with no chance is a catalyst.
IsCatalyst_Never(stack) == FALSE

IsCatalyst(stack) == stack.chance <= 0

NoStep == [kind |-> "none", item |-> "", need |-> 0, recipe |-> 0, crafts |-> 0,
           before |-> EmptyInv]

\* One iteration of the while loop (lines 78-124) on the local state
\* s = [queue, cache, cost, costAlias, target]: the state after it, with the
\* branch taken (kind), the remaining demand (need), the recipe chosen and
\* the number of crafts.
Iteration(s, table) ==
    LET stack == Head(s.queue)
        item == stack.item
        rest == Tail(s.queue)
        taken == IF Contains(s.cache, item)
                 THEN SubAmount(s.cache, item, stack.amount) ELSE 0
        cache1 == IF Contains(s.cache, item)
                  THEN SubItemStack(s.cache, item, stack.amount) ELSE s.cache
        need == stack.amount - taken
        \* stack.amount -= ... writes into the target's stack object
        target1 == IF stack.tgt THEN SetAmount(s.target, item, need) ELSE s.target
        popped == [s EXCEPT !.queue = rest, !.cache = cache1, !.target = target1]
        step(k, r, n) == [kind |-> k, item |-> item, need |-> need,
                          recipe |-> r, crafts |-> n, before |-> s.cache]
        \* cost.add_item_stack(stack): a stack not yet in cost is stored as
        \* the object it is; a later merge adds to that object's amount
        cost1 == AddItemStack(s.cost, item, Stk(need, stack.chance))
        alias1 == IF stack.tgt /\ ~Contains(s.cost, item)
                  THEN s.costAlias \cup {item} ELSE s.costAlias
        target2 == IF item \in s.costAlias
                   THEN SetAmount(target1, item, cost1[item].amount) ELSE target1
        raw == [popped EXCEPT !.cost = cost1, !.costAlias = alias1,
                              !.target = target2]
        best == BestProducers(table, item)
        r == CHOOSE r \in best : TRUE
        out == GetOutputStack(r, item)
        n == NumberOfCrafts(need, out)
    IN  IF IsCatalyst(stack)
        THEN [s |-> [s EXCEPT !.queue = rest], err |-> "",
              last |-> [kind |-> "catalyst", item |-> item, need |-> 0,
                        recipe |-> 0, crafts |-> 0, before |-> s.cache]]
        ELSE IF need <= 0
        THEN [s |-> popped, err |-> "", last |-> step("cached", 0, 0)]
        ELSE IF item \notin DOMAIN table
        THEN [s |-> raw, err |-> "", last |-> step("raw", 0, 0)]
        ELSE IF EnabledProducers(table, item) = {}
        \* max() of an empty sequence (line 95)
        THEN [s |-> popped, err |-> "ValueError", last |-> step("error", 0, 0)]
        ELSE IF Cardinality(best) = 0
        THEN [s |-> raw, err |-> "", last |-> step("raw", 0, 0)]
        ELSE IF Cardinality(best) > 1
        THEN [s |-> popped, err |-> "Multiple Recipes",
              last |-> step("error", 0, 0)]
        ELSE IF EffectiveAmount(out) = 0
        \* float division by zero (line 105)
        THEN [s |-> popped, err |-> "ZeroDivisionError",
              last |-> step("error", r, 0)]
        ELSE [s |-> [popped EXCEPT
                        !.queue = rest \o ScaledInputs(r, n),
                        !.cache = OutputsToCache(cache1, r,
                                      SortedKeys(RecipePool[r].outputs),
                                      item, need, n)],
              err |-> "", last |-> step("craft", r, n)]

\* ------------------------------------------------------------------- state
VARIABLES
    back_table,     \* RecipeMapper.back_table: item -> set of recipes
    forward_table,  \* RecipeMapper.forward_table: item -> set of recipes
    recipe_trie,    \* RecipeMapper.recipe_trie
    added,          \* history: recipes given to add_recipe, not removed since
    removes,        \* history: number of remove_recipe calls
    pc,             \* calculate_cost: "idle", "run", "done", "error", "cut"
    err,            \* the exception calculate_cost raised, "" when none
    target,         \* the caller's target inventory, in insertion order
    loc,            \* the locals of calculate_cost: queue, cache, cost, and
                    \* which stacks of cost are the target's stack objects
    shared,         \* TRUE when the local cache is the caller's inventory
    start,          \* history: target, cache and index when the call began
    last,           \* history: the iteration just made
    needSum,        \* history: per item no enabled recipe produces, the sum
                    \* of the demands for it that the cache did not serve
    prev,           \* history: the result of the call before this one
    stacks,         \* the ItemStack objects a caller of Inventory holds
    held,           \* an Inventory: item -> the stack object filed under it
    ret,            \* what the last add_item_stack / sub_item_stack returned
    op,             \* history: that call, and the amounts held before it
    made,           \* ItemStack objects made from item strings, in order
    bag,            \* an Inventory keyed by the Items of those stacks
    mul,            \* history: the last multiplication of a stack
    registry,       \* craftingCalc.Item.registry: name -> the interned item
    got,            \* history: the last construction of an interned item
    merged,         \* history: two targets resolved apart and merged
    whole,          \* history: one whole call of calculate_cost
    running,        \* Repl.running
    history,        \* Repl.history: the lines read, as their tokens
    raised,         \* the exception that left Repl.repl, "" when none
    io,             \* the number of texts written to ostream and to estream
    enums,          \* history: number of get_possible_recipes calls
    enum            \* history: the last of them and what it yielded

vars == <<back_table, forward_table, recipe_trie, added, removes, pc, err,
          target, loc, shared, start, last, needSum, prev, stacks, held, ret,
          op, made, bag, mul, registry, got, merged, whole,
          running, history, raised, io, enums, enum>>

index == <<back_table, forward_table, recipe_trie, added, removes>>

store == <<stacks, held, ret, op>>

catalog == <<made, bag, mul>>

interned == <<registry, got>>

runs == <<merged, whole>>

loop == <<running, history, raised, io>>

listing == <<enums, enum>>

rest == <<catalog, interned, runs, loop, listing>>

\* The target inventories callers pass, as the stacks they insert, in order.
Targets ==
    {<<QStack("wood_plank", 64, 100, TRUE)>>,
     <<QStack("wood_plank", 3, 100, TRUE)>>,
     <<QStack("wood_log", 3, 100, TRUE), QStack("wood_plank", 6, 100, TRUE)>>,
     <<QStack("wood_pulp", 2, 100, TRUE), QStack("wood_log", 1, 50, TRUE)>>,
     <<QStack("wood_pulp", 5, 0, TRUE), QStack("wood_plank", 1, 100, TRUE)>>}

\* The caches callers pass; EmptyInv also stands for no cache argument.
Caches ==
    {EmptyInv,
     One("wood_plank", 2, 100),
     Two("wood_log", 1, 100, "wood_pulp", 4, 100)}

\* Per item totals of nothing.
Zero == [i \in Items |-> 0]

NoRun == [status |-> "", cost |-> EmptyInv, leftover |-> EmptyInv,
          produced |-> {}, outs |-> Zero, ins |-> Zero]

NoMerge == [t1 |-> <<>>, t2 |-> <<>>, r1 |-> NoRun, r2 |-> NoRun, both |-> NoRun]

NoWhole == [target |-> <<>>, cache |-> EmptyInv, run |-> NoRun]

NoEnum == [inputs |-> EmptyInv, yielded |-> <<>>]

NoLocals == [queue |-> <<>>, cache |-> EmptyInv, cost |-> EmptyInv,
             costAlias |-> {}]

NoStart == [target |-> <<>>, cache |-> EmptyInv, back |-> <<>>, fwd |-> <<>>]

NoPrev == [valid |-> FALSE, cost |-> EmptyInv, leftover |-> EmptyInv]

Init ==
    /\ back_table = [i \in {} |-> {}]
    /\ forward_table = [i \in {} |-> {}]
    /\ recipe_trie = EmptyTrie
    /\ added = {}
    /\ removes = 0
    /\ pc = "idle"
    /\ err = ""
    /\ target = <<>>
    /\ loc = NoLocals
    /\ shared = FALSE
    /\ start = NoStart
    /\ last = NoStep
    /\ needSum = [i \in Items |-> 0]
    /\ prev = NoPrev
    /\ stacks = StackPool
    /\ held = [i \in {} |-> 0]
    /\ ret = 0
    /\ op = NoOp
    /\ made = <<>>
    /\ bag = <<>>
    /\ mul = NoMul
    /\ registry = <<>>
    /\ got = NoGot
    /\ merged = NoMerge
    /\ whole = NoWhole
    /\ running = TRUE
    /\ history = <<>>
    /\ raised = ""
    /\ io = [out |-> 0, err |-> 0]
    /\ enums = 0
    /\ enum = NoEnum

call == <<pc, err, target, loc, shared, start, last, needSum, prev>>

\* RecipeMapper.add_recipe: the two tables, then the trie.
AddRecipe(r) ==
    /\ pc = "idle"
    /\ r \notin added
    /\ Cardinality(added) < MaxRecipes
    /\ back_table' = TableAddAll(back_table, SortedKeys(RecipePool[r].outputs), r)
    /\ forward_table' = TableAddAll(forward_table, SortedKeys(RecipePool[r].inputs), r)
    /\ recipe_trie' = TrieAddRecipe(recipe_trie, r).trie
    /\ added' = added \cup {r}
    /\ UNCHANGED <<removes, call, store, rest>>

\* RecipeMapper.remove_recipe: the recipe is popped from the trie
\* (pop_recipe returns None when it is not there), then come the loop over
\* the outputs and, when that did not raise, the loop over the inputs.
RemoveRecipe(r) ==
    /\ pc = "idle"
    /\ removes < MaxRemoves
    /\ recipe_trie' = TriePopRecipe(recipe_trie, r)
    /\ LET b == TableRemoveAll(back_table, SortedKeys(RecipePool[r].outputs), r)
           f == TableRemoveAll(forward_table, SortedKeys(RecipePool[r].inputs), r)
       IN  /\ back_table' = b.table
           /\ forward_table' = IF b.ok THEN f.table ELSE forward_table
    /\ added' = {s \in added : ~RecipeEq(s, r)}
    /\ removes' = removes + 1
    /\ UNCHANGED <<call, store, rest>>

\* calculate_cost, lines 72-76: an empty (or missing) cache is replaced by a
\* new Inventory, any other cache is used as it is.
Begin(tg, c, again) ==
    /\ pc' = "run"
    /\ err' = ""
    /\ target' = tg
    /\ loc' = [queue |-> TargetValues(tg), cache |-> c, cost |-> EmptyInv,
               costAlias |-> {}]
    /\ shared' = (c # EmptyInv)
    /\ start' = [target |-> tg, cache |-> c, back |-> back_table,
                 fwd |-> forward_table]
    /\ last' = NoStep
    /\ needSum' = [i \in Items |-> 0]
    /\ prev' = IF again
               THEN [valid |-> TRUE, cost |-> loc.cost, leftover |-> loc.cache]
               ELSE NoPrev
    /\ UNCHANGED <<index, store, rest>>

\* A caller builds a target (and possibly a cache) and calls calculate_cost.
Call ==
    /\ pc = "idle"
    /\ \E tg \in Targets, c \in Caches : Begin(tg, c, FALSE)

\* The caller calls calculate_cost again with the same target inventory
\* object and a cache holding what the first cache held.
CallAgain ==
    /\ pc = "done"
    /\ ~prev.valid
    /\ Begin(target, start.cache, TRUE)

TooLarge(s) ==
    \/ Len(s.queue) > MaxQueue
    \/ \E k \in DOMAIN s.queue : s.queue[k].amount > MaxAmount
    \/ \E i \in DOMAIN s.cache : s.cache[i].amount > MaxAmount
    \/ \E i \in DOMAIN s.cost : s.cost[i].amount > MaxAmount

\* Some enabled recipe of the index has the item among its outputs.
HasEnabledProducer(item) ==
    \E i \in DOMAIN back_table : \E r \in back_table[i] :
        RecipePool[r].enabled /\ item \in DOMAIN RecipePool[r].outputs

\* calculate_cost, one iteration of the while loop (lines 77-124).
Iterate ==
    /\ pc = "run"
    /\ loc.queue # <<>>
    /\ LET res == Iteration([queue |-> loc.queue, cache |-> loc.cache,
                             cost |-> loc.cost, costAlias |-> loc.costAlias,
                             target |-> target], back_table)
       IN  IF TooLarge(res.s)
           THEN /\ pc' = "cut"
                /\ UNCHANGED <<err, target, loc, last, needSum>>
           ELSE /\ pc' = IF res.err = "" THEN "run" ELSE "error"
                /\ err' = res.err
                /\ target' = res.s.target
                /\ loc' = [queue |-> res.s.queue, cache |-> res.s.cache,
                           cost |-> res.s.cost, costAlias |-> res.s.costAlias]
                /\ last' = res.last
                /\ needSum' = IF HasEnabledProducer(res.last.item) THEN needSum
                              ELSE [needSum EXCEPT ![res.last.item] =
                                                        @ + res.last.need]
    /\ UNCHANGED <<index, store, rest, shared, start, prev>>

\* calculate_cost, line 125: the loop ended, (cost, cache) is returned.
Return ==
    /\ pc = "run"
    /\ loc.queue = <<>>
    /\ pc' = "done"
    /\ UNCHANGED <<index, store, rest, err, target, loc, shared, start, last, needSum,
                    prev>>

\* The caller drops the target, the cache and the result.
Finish ==
    /\ pc \in {"done", "error", "cut"}
    /\ pc' = "idle"
    /\ err' = ""
    /\ target' = <<>>
    /\ loc' = NoLocals
    /\ shared' = FALSE
    /\ start' = NoStart
    /\ last' = NoStep
    /\ needSum' = [i \in Items |-> 0]
    /\ prev' = NoPrev
    /\ UNCHANGED <<index, store, rest>>

Next ==
    \/ \E r \in RecipeIds : AddRecipe(r)
    \/ \E r \in RecipeIds : RemoveRecipe(r)
    \/ Call
    \/ CallAgain
    \/ Iterate
    \/ Return
    \/ Finish

Spec == Init /\ [][Next]_vars

\* The loop of calculate_cost runs to completion once entered: nothing else
\* is scheduled between its iterations.
FairSpec == Spec /\ WF_vars(Iterate) /\ WF_vars(Return)

\* The mapper while it is only being filled: add_recipe and remove_recipe
\* calls, with no calculate_cost call in between (calculate_cost leaves the
\* tables and the trie alone).
MapperNext ==
    \/ \E r \in RecipeIds : AddRecipe(r)
    \/ \E r \in RecipeIds : RemoveRecipe(r)

MapperSpec == Init /\ [][MapperNext]_vars

\* A caller of Inventory: add_item_stack and sub_item_stack calls on one
\* inventory, with the stack objects the caller holds.
Apply(kind, s, res) ==
    /\ \A i \in DOMAIN res.held : res.stacks[res.held[i]].amount <= MaxHeld
    /\ stacks' = res.stacks
    /\ held' = res.held
    /\ ret' = res.ret
    /\ op' = [kind |-> kind, stack |-> s, item |-> stacks[s].item,
              amount |-> stacks[s].amount,
              before |-> [i \in Items |-> HeldAmount(stacks, held, i)],
              had |-> DOMAIN held,
              prior |-> [kind |-> op.kind, stack |-> op.stack,
                         amount |-> op.amount, before |-> op.before,
                         had |-> op.had]]
    /\ UNCHANGED <<index, call, rest>>

InvAdd(s) == Apply("add", s, AddObject(stacks, held, s))

InvSub(s) == Apply("sub", s, SubObject(stacks, held, s))

InvNext ==
    \/ \E s \in StackIds : InvAdd(s)
    \/ \E s \in StackIds : InvSub(s)

InvSpec == Init /\ [][InvNext]_vars

\* A caller that makes stacks from item strings, multiplies them and files
\* them in an Inventory.
MakeStack(in) ==
    /\ Len(made) < MaxMade
    /\ made' = Append(made, FullStack(ItemFromString(in.str), in.amount,
                                      in.chance, in.consumed))
    /\ UNCHANGED <<bag, mul, index, call, store, interned, runs, loop, listing>>

Scale(k, n) ==
    /\ Len(made) < MaxMade
    /\ made' = Append(made, Mul(made[k], n))
    /\ mul' = [of |-> k, by |-> n, was |-> made[k], new |-> Len(made) + 1]
    /\ UNCHANGED <<bag, index, call, store, interned, runs, loop, listing>>

File(k) ==
    /\ \A i \in DOMAIN FileStack(bag, made[k]) :
           FileStack(bag, made[k])[i] <= MaxHeld
    /\ bag' = FileStack(bag, made[k])
    /\ UNCHANGED <<made, mul, index, call, store, interned, runs, loop, listing>>

ItemNext ==
    \/ \E in \in StackInputs : MakeStack(in)
    \/ \E k \in DOMAIN made, n \in 0..MaxFactor : Scale(k, n)
    \/ \E k \in DOMAIN made : File(k)

ItemSpec == Init /\ [][ItemNext]_vars

\* A caller of craftingCalc.Item(name, recipe).
NewItem(name, recipe) ==
    LET res == Construct(registry, name, recipe)
    IN  /\ registry' = res.registry
        /\ got' = [name |-> name, recipe |-> recipe, raised |-> res.raised,
                   id |-> res.id, before |-> registry]
        /\ UNCHANGED <<index, call, store, catalog, runs, loop, listing>>

RegistryNext == \E name \in ItemNames, recipe \in RecipeNames \cup {None} :
                    NewItem(name, recipe)

RegistrySpec == Init /\ [][RegistryNext]_vars

\* ------------------------------------------------------- whole resolutions
\* Per item totals, for inventories and for what the crafts made and used.
Amounts(inv) == [i \in Items |-> IF i \in DOMAIN inv THEN inv[i].amount ELSE 0]

\* What number_of_crafts crafts of recipe r put out (lines 110-112) and ask
\* for (lines 107-108), per item.
Outputs(r, n) == [i \in Items |-> Amounts(RecipePool[r].outputs)[i] * n]

Inputs(r, n) == [i \in Items |-> Amounts(RecipePool[r].inputs)[i] * n]

Sum(f, g) == [i \in Items |-> f[i] + g[i]]

\* The while loop of calculate_cost (lines 77-125) run to its end from the
\* local state s: how it ended, what it returns, the items its crafts put
\* out, and the totals of what the crafts put out and asked for.
RECURSIVE RunLoop(_, _, _, _)
RunLoop(s, table, acc, fuel) ==
    IF s.queue = <<>>
    THEN [status |-> "done", cost |-> s.cost, leftover |-> s.cache,
          produced |-> acc.produced, outs |-> acc.outs, ins |-> acc.ins]
    ELSE LET res == Iteration(s, table)
             r == res.last.recipe
             n == res.last.crafts
             acc1 == IF res.last.kind = "craft"
                     THEN [produced |-> acc.produced
                                        \cup DOMAIN RecipePool[r].outputs,
                           outs |-> Sum(acc.outs, Outputs(r, n)),
                           ins |-> Sum(acc.ins, Inputs(r, n))]
                     ELSE acc
             ended(how) == [status |-> how, cost |-> EmptyInv,
                            leftover |-> EmptyInv, produced |-> {},
                            outs |-> Zero, ins |-> Zero]
         IN  IF res.err # "" THEN ended(res.err)
             ELSE IF fuel = 0 \/ TooLarge(res.s) THEN ended("cut")
             ELSE RunLoop(res.s, table, acc1, fuel - 1)

\* calculate_cost(target, cache) on an index.
Resolve(table, tg, c) ==
    RunLoop([queue |-> TargetValues(tg), cache |-> c, cost |-> EmptyInv,
             costAlias |-> {}, target |-> tg],
            table, [produced |-> {}, outs |-> Zero, ins |-> Zero], MaxSteps)

\* Inventory.add_item_stack on an inventory kept as the sequence of its
\* stacks, in insertion order.
AddToTarget(tg, st) ==
    IF st.amount <= 0 THEN tg
    ELSE IF \E k \in DOMAIN tg : tg[k].item = st.item
         THEN [k \in DOMAIN tg |->
                  IF tg[k].item = st.item
                  THEN [tg[k] EXCEPT !.amount = @ + st.amount] ELSE tg[k]]
         ELSE Append(tg, st)

\* The inventory that holds the stacks of t1 and then those of t2.
RECURSIVE AddAllToTarget(_, _)
AddAllToTarget(tg, sts) ==
    IF sts = <<>> THEN tg
    ELSE AddAllToTarget(AddToTarget(tg, Head(sts)), Tail(sts))

MergedTarget(t1, t2) == AddAllToTarget(AddAllToTarget(<<>>, t1), t2)

\* The targets resolved apart and merged.
PartTargets ==
    {<<QStack("wood_plank", 3, 100, TRUE)>>,
     <<QStack("wood_plank", 1, 100, TRUE)>>,
     <<QStack("wood_pulp", 2, 100, TRUE), QStack("wood_log", 2, 100, TRUE)>>,
     <<QStack("wood_log", 3, 100, TRUE)>>,
     <<QStack("wood_log", 2, 0, TRUE)>>,
     <<QStack("wood_pulp", 1, 100, TRUE)>>}

\* The recipes are registered first, then comes one resolution.
Register(r) ==
    /\ merged = NoMerge
    /\ whole = NoWhole
    /\ AddRecipe(r)

\* A caller resolves t1, t2 and an inventory holding the stacks of both,
\* each with no cache, on the same index.
ResolveParts(t1, t2) ==
    /\ merged = NoMerge
    /\ whole = NoWhole
    /\ merged' = [t1 |-> t1, t2 |-> t2,
                  r1 |-> Resolve(back_table, t1, EmptyInv),
                  r2 |-> Resolve(back_table, t2, EmptyInv),
                  both |-> Resolve(back_table, MergedTarget(t1, t2), EmptyInv)]
    /\ UNCHANGED <<index, call, store, catalog, interned, whole, loop, listing>>

\* A caller resolves one target with a cache.
ResolveWhole(tg, c) ==
    /\ merged = NoMerge
    /\ whole = NoWhole
    /\ whole' = [target |-> tg, cache |-> c, run |-> Resolve(back_table, tg, c)]
    /\ UNCHANGED <<index, call, store, catalog, interned, merged, loop, listing>>

RunNext ==
    \/ \E r \in RecipeIds : Register(r)
    \/ \E t1, t2 \in PartTargets : ResolveParts(t1, t2)
    \/ \E tg \in Targets, c \in Caches : ResolveWhole(tg, c)

RunSpec == Init /\ [][RunNext]_vars

\* --------------------------------------------------------- the command loop
\* The keywords of RecipeRepl.commands after init_commands and
\* load_recipe_commands.
Commands == {"help", "exit", "add", "list", "save", "tree", "__items", "cost"}

\* The lines a user types, as text.split() gives them.
Lines ==
    {<<>>, <<"help">>, <<"help", "save">>, <<"help", "bogus">>, <<"exit">>,
     <<"bogus">>, <<"save">>, <<"save", "book.json">>}

\* What a command does to the loop: running, the exception it raises, and
\* the texts it writes with println and printerr.
Effect(run, exc, outs, errs) ==
    [running |-> run, raised |-> exc, out |-> outs, err |-> errs]

\* HelpCommand.action
HelpAction(args) ==
    IF Len(args) > 0
    THEN Effect(TRUE, "",
                Cardinality({k \in DOMAIN args : args[k] \in Commands}),
                Cardinality({k \in DOMAIN args : args[k] \notin Commands}))
    ELSE Effect(TRUE, "", Cardinality(Commands), 0)

\* ExitCommand.action
ExitAction(args) == Effect(FALSE, "", 0, 0)

\* SaveCommand.action; written says whether dump_to_file wrote the file or
\* open() raised.
SaveAction(args, written) ==
    IF Len(args) <= 0 THEN Effect(TRUE, "IncorrectArgumentException", 0, 0)
    ELSE IF written THEN Effect(TRUE, "", 1, 0)
    ELSE Effect(TRUE, "OSError", 0, 0)

\* Repl.get_command on the tokens of the line read.
GetCommand(toks, written) ==
    IF Len(toks) < 1 THEN Effect(TRUE, "", 0, 0)
    ELSE IF Head(toks) \notin Commands THEN Effect(TRUE, "", 0, 1)
    ELSE IF Head(toks) = "help" THEN HelpAction(Tail(toks))
    ELSE IF Head(toks) = "exit" THEN ExitAction(Tail(toks))
    ELSE SaveAction(Tail(toks), written)

\* Repl.repl, one turn of the while loop: a line is read, put in the
\* history and carried out.  Only KeyboardInterrupt is caught, any other
\* exception leaves repl.
ReadLine(toks, written) ==
    /\ running
    /\ raised = ""
    /\ Len(history) < MaxLines
    /\ LET e == GetCommand(toks, written)
       IN  /\ history' = Append(history, toks)
           /\ running' = e.running
           /\ raised' = e.raised
           /\ io' = [out |-> io.out + e.out, err |-> io.err + e.err]
    /\ UNCHANGED <<index, call, store, catalog, interned, runs, listing>>

\* Repl.repl: KeyboardInterrupt while the line is awaited.
Interrupt ==
    /\ running
    /\ raised = ""
    /\ running' = FALSE
    /\ UNCHANGED <<history, raised, io, index, call, store, catalog, interned,
                   runs, listing>>

ReplNext ==
    \/ \E toks \in Lines, written \in BOOLEAN : ReadLine(toks, written)
    \/ Interrupt

ReplSpec == Init /\ [][ReplNext]_vars

\* ------------------------------------------------- candidate enumeration
\* RecipeTrie.get_possible_recipes run to completion.  queue is the list
\* root.children itself (line 354): the entries still on the root's list,
\* each with the path of the node that holds its children.  A branch whose
\* item is among the inputs has its children put at the end of that list
\* (lines 362-364), a leaf is yielded (366).
RECURSIVE Enumeration(_, _, _, _)
Enumeration(trie, queue, inputs, yielded) ==
    IF queue = <<>>
    THEN [yielded |-> yielded, root |-> queue]
    ELSE LET current == Head(queue)
             node == Append(current.at, current.e.item)
             children == [k \in DOMAIN trie[node] |->
                             [e |-> trie[node][k], at |-> node]]
         IN  IF current.e.kind = "branch"
             THEN IF current.e.item \in DOMAIN inputs
                  THEN Enumeration(trie, Tail(queue) \o children, inputs, yielded)
                  ELSE Enumeration(trie, Tail(queue), inputs, yielded)
             ELSE Enumeration(trie, Tail(queue), inputs,
                              Append(yielded, current.e.recipe))

\* The leaves get_possible_recipes yields, and the trie it leaves: the
\* root's list is what is left of the queue, and only nodes still under the
\* root belong to the trie.
GetPossibleRecipes(trie, inputs) ==
    LET queue == [k \in DOMAIN trie[<<>>] |-> [e |-> trie[<<>>][k], at |-> <<>>]]
        res == Enumeration(trie, queue, inputs, <<>>)
    IN  [yielded |-> res.yielded,
         trie |-> [p \in {<<>>} |-> [k \in DOMAIN res.root |-> res.root[k].e]]]

\* The inventories candidates are enumerated for.
EnumInputs ==
    {EmptyInv, One("wood_log", 1, 100), One("wood_plank", 1, 100),
     Two("wood_log", 1, 100, "wood_pulp", 1, 100)}

\* A caller consumes list(recipe_trie.get_possible_recipes(inputs)).
Enumerate(inputs) ==
    /\ pc = "idle"
    /\ enums < MaxEnums
    /\ LET res == GetPossibleRecipes(recipe_trie, inputs)
       IN  /\ recipe_trie' = res.trie
           /\ enum' = [inputs |-> inputs, yielded |-> res.yielded]
    /\ enums' = enums + 1
    /\ UNCHANGED <<back_table, forward_table, added, removes, call, store,
                   catalog, interned, runs, loop>>

EnumNext ==
    \/ \E r \in RecipeIds : AddRecipe(r)
    \/ \E inputs \in EnumInputs : Enumerate(inputs)

EnumSpec == Init /\ [][EnumNext]_vars

\* ------------------------------------------------------------------ claims
\* The iteration just made went past the cache: some demand remained.
Demanded == pc # "idle" /\ last.kind \in {"raw", "craft", "error"}

\* The recipes of the index that produce an item.
Producers(item) == IF item \in DOMAIN back_table THEN back_table[item] ELSE {}

\* Among a set of recipes, the enabled ones no enabled one outranks.
TopEnabled(S) ==
    {r \in S : /\ RecipePool[r].enabled
               /\ \A s \in S : RecipePool[s].enabled =>
                                   RecipePool[s].priority <= RecipePool[r].priority}

\* C1: when the demanded item is not covered by the cache and exactly one
\* enabled producer has the maximum priority among the enabled producers, that
\* recipe is the one chosen and applied, and a recipe that is applied is
\* always that one: never a disabled recipe, never one of lower priority,
\* whatever the order of the add_recipe calls.
C1_UniqueBestRecipeApplied ==
    Demanded =>
        LET top == TopEnabled(Producers(last.item))
        IN  /\ last.kind = "craft" => top = {last.recipe}
            /\ Cardinality(top) = 1 =>
                   /\ top = {last.recipe}
                   /\ last.kind = "craft" \/ err = "ZeroDivisionError"

\* C1 witness: recipe 2 (priority 1) is applied for wood_plank although the
\* index also holds recipe 1 (priority 0) and the disabled recipe 7
\* (priority 3).
C1_Witness ==
    /\ pc = "run"
    /\ last.kind = "craft"
    /\ last.item = "wood_plank"
    /\ last.recipe = 2
    /\ {1, 7} \subseteq Producers("wood_plank")

\* C2: a craft of a remaining demand n with an output stack of amount a and
\* chance c > 0 makes exactly ceil(n / (a*c)) crafts (the least k with
\* k*a*c >= n) and appends every input of the recipe, its amount multiplied
\* by that count, to the queue.  Instance: recipes 1 and 2, target
\* wood_plank:64, empty cache: cost {wood_log: 11}, leftover {wood_pulp: 11,
\* wood_plank: 2}.
C2_CraftCountAndInputs ==
    /\ (pc # "idle" /\ last.kind = "craft") =>
           LET rcp == RecipePool[last.recipe]
               out == rcp.outputs[last.item]
               k == Cardinality(DOMAIN rcp.inputs)
               q == loc.queue
           IN  /\ out.chance > 0
               /\ last.crafts * out.amount * out.chance >= last.need * 100
               /\ (last.crafts - 1) * out.amount * out.chance < last.need * 100
               /\ Len(q) >= k
               /\ {q[j].item : j \in (Len(q) - k + 1)..Len(q)} = DOMAIN rcp.inputs
               /\ \A j \in (Len(q) - k + 1)..Len(q) :
                      /\ q[j].amount = rcp.inputs[q[j].item].amount * last.crafts
                      /\ q[j].chance = rcp.inputs[q[j].item].chance
    /\ (/\ pc = "done"
        /\ DOMAIN back_table = {"wood_plank", "wood_pulp"}
        /\ back_table["wood_plank"] = {1, 2}
        /\ start.target = <<QStack("wood_plank", 64, 100, TRUE)>>
        /\ start.cache = EmptyInv
        /\ ~prev.valid) =>
           /\ loc.cost = One("wood_log", 11, 100)
           /\ loc.cache = Two("wood_plank", 2, 100, "wood_pulp", 11, 100)

\* C2 witness: the instance has returned.
C2_Witness ==
    /\ pc = "done"
    /\ DOMAIN back_table = {"wood_plank", "wood_pulp"}
    /\ back_table["wood_plank"] = {1, 2}
    /\ start.target = <<QStack("wood_plank", 64, 100, TRUE)>>
    /\ start.cache = EmptyInv
    /\ loc.cost = One("wood_log", 11, 100)

\* The amount an inventory holds of an item, 0 when it has no entry.
AmountOf(inv, item) == IF item \in DOMAIN inv THEN inv[item].amount ELSE 0

\* C3: after a craft the cache holds, for every other output of the recipe,
\* what it held before plus the output amount times the craft count; for the
\* demanded item exactly the excess, produced amount minus remaining demand
\* (no entry when that is 0); and for every other item what it held before.
C3_OutputsIntoCache ==
    (pc # "idle" /\ last.kind = "craft") =>
        LET outs == RecipePool[last.recipe].outputs
        IN  \A i \in Items :
                IF i = last.item
                THEN AmountOf(loc.cache, i) =
                         outs[i].amount * last.crafts - last.need
                ELSE IF i \in DOMAIN outs
                THEN AmountOf(loc.cache, i) =
                         AmountOf(last.before, i) + outs[i].amount * last.crafts
                ELSE AmountOf(loc.cache, i) = AmountOf(last.before, i)

\* C3 witness: a craft with a byproduct merged into a cache that already
\* held some of it, and with an excess of the demanded item.
C3_Witness ==
    /\ pc = "run"
    /\ last.kind = "craft"
    /\ last.recipe = 2
    /\ AmountOf(last.before, "wood_pulp") > 0
    /\ AmountOf(loc.cache, "wood_pulp") > AmountOf(last.before, "wood_pulp")
    /\ AmountOf(loc.cache, last.item) > 0

\* C4: whenever more than one enabled recipe registered for the demanded
\* item shares the maximal priority, including recipes that differ only in
\* their amounts, the call fails with the ambiguity error.
C4_TieIsAlwaysAmbiguous ==
    Demanded =>
        LET reg == {r \in added : last.item \in DOMAIN RecipePool[r].outputs}
        IN  Cardinality(TopEnabled(reg)) > 1 =>
                pc = "error" /\ err = "Multiple Recipes"

\* C5: when every producer of the demanded item is disabled, the remaining
\* demand is added to cost and no error is raised.
C5_AllDisabledIsRaw ==
    (/\ Demanded
     /\ Producers(last.item) # {}
     /\ \A r \in Producers(last.item) : ~RecipePool[r].enabled) =>
        last.kind = "raw" /\ pc # "error"

\* C6: a call of calculate_cost always ends, by returning or by raising.
C6_ResolveTerminates == (pc = "run") ~> (pc # "run")

\* The items reachable from an item along the recipes of the index, from an
\* input of a recipe to each of its outputs.
Registered == UNION {back_table[i] : i \in DOMAIN back_table}

Made(S) ==
    {j \in Items : \E r \in Registered :
        /\ j \in DOMAIN RecipePool[r].outputs
        /\ DOMAIN RecipePool[r].inputs \cap S # {}}

RECURSIVE Reach(_, _)
Reach(S, n) == IF n = 0 THEN S ELSE Reach(S \cup Made(S), n - 1)

\* C7: add_recipe refuses a recipe that closes a cycle, so the recipe graph
\* of the index is acyclic.
C7_IndexAcyclic ==
    \A i \in Items : i \notin Reach(Made({i}), Cardinality(Items))

\* C8: when a call has returned or failed, the index is as it was when the
\* call began and the caller's target and cache inventories hold what they
\* held then.
C8_ResolveFrame ==
    pc \in {"done", "error"} =>
        /\ back_table = start.back
        /\ forward_table = start.fwd
        /\ AsInv(target) = AsInv(start.target)
        /\ shared => loc.cache = start.cache

\* C9: a second call with the same target inventory object, the same cache
\* contents and the same index returns the cost and leftover of the first.
C9_SameCallSameResult ==
    (pc = "done" /\ prev.valid) =>
        /\ loc.cost = prev.cost
        /\ loc.cache = prev.leftover

\* C10: in a returned result every item of cost has no enabled producer in
\* the index and its cost amount is the sum of the demands for it that the
\* cache did not serve; an item no enabled recipe produces is in cost as
\* soon as some demand for it remained.
C10_CostIsRawDemand ==
    pc = "done" =>
        \A i \in Items :
            /\ i \in DOMAIN loc.cost =>
                   /\ TopEnabled(Producers(i)) = {}
                   /\ loc.cost[i].amount > 0
            /\ TopEnabled(Producers(i)) = {} =>
                   AmountOf(loc.cost, i) = needSum[i]

\* C10 witness: a returned cost that sums two demands for the same item, one
\* from the target and one from the inputs of a craft.
C10_Witness ==
    /\ pc = "done"
    /\ start.target = <<QStack("wood_log", 3, 100, TRUE),
                        QStack("wood_plank", 6, 100, TRUE)>>
    /\ "wood_log" \in DOMAIN loc.cost
    /\ loc.cost["wood_log"].amount > 3
    /\ last.kind = "raw"

\* The smaller of two numbers.
Least(a, b) == IF a <= b THEN a ELSE b

\* What one iteration does with the demand d it pops, when the cache held k
\* units of its item: Least(d.amount, k) units leave the cache and only the
\* rest is crafted or added to cost.
ServedFromCache(d) ==
    LET k == AmountOf(loc.cache, d.item)
        m == Least(d.amount, k)
    IN  /\ last'.kind # "catalyst" => last'.need = d.amount - m
        /\ last'.kind # "craft" => AmountOf(loc'.cache, d.item) = k - m
        /\ last'.kind = "craft" =>
               AmountOf(loc'.cache, d.item) =
                   RecipePool[last'.recipe].outputs[d.item].amount * last'.crafts
                       - (d.amount - m)
        /\ last'.kind = "raw" =>
               AmountOf(loc'.cost, d.item) =
                   AmountOf(loc.cost, d.item) + (d.amount - m)
        /\ last'.kind # "raw" => loc'.cost = loc.cost

\* An iteration of the loop was made in this step.
Iterated == pc = "run" /\ loc.queue # <<>> /\ pc' \in {"run", "error"}

\* The starting cache holds at least the amount of every stack of the target.
CacheCoversTarget ==
    /\ pc # "idle"
    /\ \A k \in DOMAIN start.target :
           AmountOf(start.cache, start.target[k].item) >= start.target[k].amount

\* C11 as stated: every demand popped, whatever its chance, takes
\* min(n, k) units out of the cache and leaves n - min(n, k) to craft or buy.
C11_EveryDemandServedFromCache ==
    [][Iterated => ServedFromCache(Head(loc.queue))]_vars

\* C11 as amended: every demand with chance > 0 takes min(n, k) units out of
\* the cache and only n - min(n, k) units are crafted or added to cost; and
\* when the starting cache covers a target whose stacks all have chance > 0,
\* no recipe is applied, cost is empty and the leftover is the starting cache
\* minus the target.
C11_DemandServedFromCache ==
    /\ [][(Iterated /\ Head(loc.queue).chance > 0) =>
              ServedFromCache(Head(loc.queue))]_vars
    /\ []((/\ CacheCoversTarget
           /\ \A k \in DOMAIN start.target : start.target[k].chance > 0) =>
              /\ last.kind \in {"none", "cached"}
              /\ loc.cost = EmptyInv
              /\ pc = "done" =>
                     \A i \in Items :
                         AmountOf(loc.cache, i) =
                             AmountOf(start.cache, i)
                                 - AmountOf(AsInv(start.target), i))

\* C11 witness: a call whose starting cache covered the whole target has
\* returned, after a demand was served in part of what the cache held.
C11_Witness ==
    /\ pc = "done"
    /\ CacheCoversTarget
    /\ start.target # <<>>
    /\ \A k \in DOMAIN start.target :
           start.target[k].chance > 0 /\ start.target[k].amount > 0
    /\ last.kind = "cached"
    /\ \E i \in DOMAIN loc.cache : loc.cache[i].amount < start.cache[i].amount

\* C12: an iteration that pops a demand with chance <= 0, from the target or
\* from the scaled inputs of a recipe, only drops it from the queue: cost,
\* cache and target are as before, nothing is enqueued and nothing is raised.
C12_CatalystDiscarded ==
    [][(Iterated /\ Head(loc.queue).chance <= 0) =>
           /\ loc'.cost = loc.cost
           /\ loc'.cache = loc.cache
           /\ loc'.costAlias = loc.costAlias
           /\ loc'.queue = Tail(loc.queue)
           /\ target' = target
           /\ pc' = "run"
           /\ last'.kind = "catalyst"]_vars

\* C12 witness: a catalyst demand that a recipe's scaled inputs enqueued was
\* popped while the cache held its item.
C12_Witness ==
    /\ last.kind = "catalyst"
    /\ \A k \in DOMAIN start.target : start.target[k].chance > 0
    /\ Contains(last.before, last.item)
    /\ Contains(loc.cache, last.item)

\* C13: when a recipe is applied, the cache amount of every item that the
\* recipe outputs with chance 0 is what it was before the iteration.
C13_ZeroChanceOutputNotCached ==
    last.kind = "craft" =>
        \A i \in DOMAIN RecipePool[last.recipe].outputs :
            RecipePool[last.recipe].outputs[i].chance = 0 =>
                AmountOf(loc.cache, i) = AmountOf(last.before, i)

\* Some recipe equal to r has a leaf in the trie.
InTrie(r) ==
    \E p \in DOMAIN recipe_trie : LeavesEqual(recipe_trie, p, r) # {}

\* Some recipe equal to r was added and not removed since.
IsRegistered(r) == \E s \in added : RecipeEq(s, r)

\* Some recipe equal to r is a member of the table's set for the item.
ListedUnder(table, i, r) ==
    i \in DOMAIN table /\ \E s \in table[i] : RecipeEq(s, r)

\* C14: after any add_recipe and remove_recipe calls a recipe is in
\* back_table[i] exactly when it is registered and outputs i, in
\* forward_table[i] exactly when it is registered and takes i as input, and
\* has a leaf in the trie exactly when it is registered.
C14_StructuresAgree ==
    \A r \in RecipeIds :
        /\ \A i \in Items :
               /\ ListedUnder(back_table, i, r) <=>
                      (IsRegistered(r) /\ i \in DOMAIN RecipePool[r].outputs)
               /\ ListedUnder(forward_table, i, r) <=>
                      (IsRegistered(r) /\ i \in DOMAIN RecipePool[r].inputs)
        /\ InTrie(r) <=> IsRegistered(r)

\* C14 witness: a recipe with two outputs and another recipe are registered
\* after a remove_recipe call that emptied a set of back_table.
C14_Witness ==
    /\ removes = 1
    /\ Cardinality(added) >= 2
    /\ \E r \in added : Cardinality(DOMAIN RecipePool[r].outputs) = 2
    /\ \E i \in DOMAIN back_table : back_table[i] = {}
    /\ \E i \in DOMAIN forward_table : forward_table[i] = {}

\* The leaves of a trie, each as the node it hangs from and its recipe.
LeavesOf(trie) ==
    UNION {{[node |-> p, recipe |-> trie[p][k].recipe] :
               k \in {j \in DOMAIN trie[p] : trie[p][j].kind = "leaf"}} :
           p \in DOMAIN trie}

\* C15: RecipeTrie.add_recipe of a recipe equal to one in the trie returns
\* the leaf that is there and leaves the trie as it is, so that adding a
\* recipe twice gives the trie that adding it once gives; add_recipe of the
\* mapper meets this whenever it is given such a recipe.
C15_TrieAddIdempotent ==
    /\ [](\A r \in RecipeIds :
              LET once == TrieAddRecipe(recipe_trie, r)
                  twice == TrieAddRecipe(once.trie, r)
              IN  /\ twice.trie = once.trie
                  /\ twice.leaf = once.leaf
                  /\ LeavesOf(twice.trie) = LeavesOf(once.trie)
                  /\ InTrie(r) =>
                         /\ once.trie = recipe_trie
                         /\ once.leaf \in LeavesOf(recipe_trie)
                         /\ RecipeEq(once.leaf.recipe, r))
    /\ [][\A r \in RecipeIds :
              (InTrie(r) /\ r \notin added /\ r \in added') =>
                  recipe_trie' = recipe_trie]_vars

\* C15 witness: a recipe was added while an equal one was in the trie, and
\* the trie holds the leaf of the earlier one only.
C15_Witness ==
    \E r \in added :
        /\ InTrie(r)
        /\ \A l \in LeavesOf(recipe_trie) : l.recipe # r
        /\ Cardinality(LeavesOf(recipe_trie)) = 2

\* The nodes on the way from the root to a node, both included.
UpTo(p) == {SubSeq(p, 1, n) : n \in 0..Len(p)}

\* The parent nodes a trie needs for its leaves: the root and every node on
\* the way to a leaf.
NodesFor(trie) == {<<>>} \cup UNION {UpTo(l.node) : l \in LeavesOf(trie)}

\* The children of node p of trie t that are kept in trie u: the leaves
\* whose recipe is not equal to r and the branches u still has.
KeptChildren(t, u, p, r) ==
    SelectSeq(t[p], LAMBDA e :
        \/ e.kind = "leaf" /\ ~RecipeEq(e.recipe, r)
        \/ e.kind = "branch" /\ Append(p, e.item) \in DOMAIN u)

\* C16: pop_recipe of a recipe in the trie removes its leaf and the branch
\* nodes left without children, keeps every other child in place and every
\* other recipe findable, and changes nothing for a recipe not in the trie;
\* so the root is always there and every branch node has a child.
C16_PopPrunes ==
    /\ <<>> \in DOMAIN recipe_trie
    /\ \A p \in DOMAIN recipe_trie : p # <<>> =>
           /\ Len(recipe_trie[p]) >= 1
           /\ Parent(p) \in DOMAIN recipe_trie
           /\ HasBranch(recipe_trie, Parent(p), p[Len(p)])
    /\ \A r \in RecipeIds :
           LET u == TriePopRecipe(recipe_trie, r)
           IN  /\ ~InTrie(r) => u = recipe_trie
               /\ InTrie(r) =>
                      /\ LeavesOf(u) =
                             {l \in LeavesOf(recipe_trie) : ~RecipeEq(l.recipe, r)}
                      /\ Cardinality(LeavesOf(u)) =
                             Cardinality(LeavesOf(recipe_trie)) - 1
                      /\ DOMAIN u = NodesFor(u)
                      /\ \A p \in DOMAIN u :
                             u[p] = KeptChildren(recipe_trie, u, p, r)
                      /\ \A l \in LeavesOf(u) : FindRecipeNode(u, l.recipe).found

\* C16 witness: the recipe wood_log + wood_pulp -> wood_plank was removed;
\* its leaf and the wood_pulp branch above it are gone, and the wood_log
\* branch still holds another recipe.
C16_Witness ==
    /\ removes = 1
    /\ "wood_log" \notin DOMAIN back_table
    /\ "wood_pulp" \in DOMAIN forward_table
    /\ forward_table["wood_pulp"] = {}
    /\ DOMAIN recipe_trie = {<<>>, <<"wood_log">>}
    /\ LeavesOf(recipe_trie) # {}

\* C17: find_recipe_node(r) returns a leaf exactly when a recipe equal to r
\* is in the trie, and the leaf it returns holds such a recipe; otherwise
\* (no path, no leaf, empty trie, recipe without inputs) it returns None.
C17_FindIffPresent ==
    \A r \in RecipeIds :
        LET f == FindRecipeNode(recipe_trie, r)
        IN  /\ f.found <=> InTrie(r)
            /\ f.found =>
                   /\ f.node \in DOMAIN recipe_trie
                   /\ f.index \in DOMAIN recipe_trie[f.node]
                   /\ recipe_trie[f.node][f.index].kind = "leaf"
                   /\ RecipeEq(recipe_trie[f.node][f.index].recipe, r)
            /\ ~f.found => f = [found |-> FALSE, node |-> <<>>, index |-> 0]

\* C17 witness: the trie holds a recipe with two inputs and the recipe
\* without inputs, both found; the recipe with input wood_pulp alone is not
\* in it, although the search for its path ends at a wood_pulp branch, and
\* no recipe with input wood_plank has a path at all.
C17_Witness ==
    /\ FindRecipeNode(recipe_trie, 4).found
    /\ FindRecipeNode(recipe_trie, 9).found
    /\ ~InTrie(8)
    /\ FindBase(recipe_trie, <<>>, <<"wood_pulp">>).found
    /\ ~FindBase(recipe_trie, <<>>, <<"wood_plank">>).found
    /\ removes = 1

\* C18: after any add_item_stack and sub_item_stack calls every entry of
\* the inventory has amount > 0 and is filed under its own item, one entry
\* per item (this holds for stacks of negative amount too).
C18_EntriesPositive ==
    \A i \in DOMAIN held :
        /\ stacks[held[i]].amount > 0
        /\ stacks[held[i]].item = i
        /\ \A j \in DOMAIN held : held[j] = held[i] => j = i

\* C18 witness: an entry was brought to 0 by sub_item_stack and deleted
\* while another item is still held.
C18_Witness ==
    /\ op.kind = "sub"
    /\ op.before[op.item] > 0
    /\ op.item \notin DOMAIN held
    /\ held # <<>>

\* Every item other than the one of the last call has the entry it had.
OthersUnchanged ==
    \A i \in Items \ {op.item} :
        /\ HeldAmount(stacks, held, i) = op.before[i]
        /\ i \in DOMAIN held <=> i \in op.had

\* C19: add_item_stack of a stack with amount > 0 raises the amount held of
\* its item by exactly that amount, returns the amount added and leaves the
\* other entries alone; with amount <= 0 it changes nothing and returns 0.
C19_AddExact ==
    op.kind = "add" =>
        /\ OthersUnchanged
        /\ op.amount > 0 =>
               /\ op.item \in DOMAIN held
               /\ HeldAmount(stacks, held, op.item) =
                      op.before[op.item] + op.amount
               /\ ret = op.amount
        /\ op.amount <= 0 =>
               /\ HeldAmount(stacks, held, op.item) = op.before[op.item]
               /\ DOMAIN held = op.had
               /\ ret = 0

\* C20: sub_item_stack takes min(amount held, amount asked) off the entry
\* of the item, returns that number (0 when the item has no entry), deletes
\* the entry when it reaches 0, never leaves a negative entry and leaves
\* the other entries alone.
C20_SubExact ==
    op.kind = "sub" =>
        LET k == op.before[op.item]
            m == Taken(k, op.amount)
        IN  /\ OthersUnchanged
            /\ op.item \notin op.had => ret = 0 /\ DOMAIN held = op.had
            /\ op.item \in op.had =>
                   /\ ret = m
                   /\ HeldAmount(stacks, held, op.item) = k - m
                   /\ op.item \in DOMAIN held <=> k - m > 0
            /\ \A i \in DOMAIN held : stacks[held[i]].amount >= 0

\* C20 witness: sub_item_stack took a part of an entry, less than was held,
\* while another item was held too.
C20_Witness ==
    /\ op.kind = "sub"
    /\ op.amount > 0
    /\ op.amount < op.before[op.item]
    /\ ret = op.amount
    /\ Cardinality(DOMAIN held) = 2

\* C21: add_item_stack of a stack with amount > 0 and then sub_item_stack of
\* the same stack leave the inventory as it was before the two calls: the
\* same entries with the same amounts.
C21_AddThenSubRestores ==
    (/\ op.kind = "sub"
     /\ op.prior.kind = "add"
     /\ op.prior.stack = op.stack
     /\ op.prior.amount > 0) =>
        /\ DOMAIN held = op.prior.had
        /\ \A i \in Items : HeldAmount(stacks, held, i) = op.prior.before[i]

\* C22: Items of the same name and metadata are equal whatever their
\* wildcard flag, hash alike and are not ordered one before the other, so
\* stacks of two such items share one entry of an Inventory.
C22_ItemEqualityByNameMetadata ==
    /\ \A j, k \in DOMAIN made :
           (made[j].item.name = made[k].item.name
            /\ made[j].item.metadata = made[k].item.metadata) =>
               /\ ItemEq(made[j].item, made[k].item)
               /\ ItemHash(made[j].item) = ItemHash(made[k].item)
               /\ ~ItemLess(made[j].item, made[k].item)
    /\ \A a, b \in DOMAIN bag :
           (a.name = b.name /\ a.metadata = b.metadata) => a = b

\* C23: multiplying a stack s by n >= 0 gives a new stack of the same item,
\* with the amount s.amount * n and the chance of s, and s is as it was.
C23_MulScalesAmountOnly ==
    mul.of # 0 =>
        /\ mul.new # mul.of
        /\ made[mul.new].item = mul.was.item
        /\ made[mul.new].amount = mul.was.amount * mul.by
        /\ made[mul.new].chance = mul.was.chance
        /\ made[mul.of] = mul.was

C23_Witness ==
    /\ mul.of # 0
    /\ mul.by = 2
    /\ mul.was.amount = 3
    /\ mul.was.chance = 50
    /\ made[mul.new].amount = 6

\* C24: a construction that brings a recipe for a name whose item has one
\* raises DuplicateRecipeError and leaves the registry, the item and its
\* recipe as they were; a construction without a recipe for a registered
\* name returns the registered item and does not clear its recipe.
C24_DuplicateRecipeRejected ==
    got.name \in DOMAIN got.before =>
        /\ (got.recipe # None /\ got.before[got.name].recipe # None) =>
               /\ got.raised = "DuplicateRecipeError"
               /\ registry = got.before
        /\ got.recipe = None =>
               /\ got.raised = ""
               /\ got.id = got.before[got.name].id
               /\ registry = got.before

C24_Witness ==
    /\ got.name \in DOMAIN got.before
    /\ got.recipe = "r2"
    /\ got.raised = "DuplicateRecipeError"
    /\ registry[got.name].recipe = "r1"
    /\ \E n \in DOMAIN registry : n # got.name /\ registry[n].recipe = None
\* C25: two targets whose resolutions (with no cache) return and put out
\* no common item cost, resolved merged, the sum of what they cost apart.
NoCommonOutput ==
    /\ merged.r1.status = "done"
    /\ merged.r2.status = "done"
    /\ merged.both.status = "done"
    /\ merged.r1.produced \cap merged.r2.produced = {}

C25_MergedCostIsSum ==
    NoCommonOutput =>
        Amounts(merged.both.cost)
            = Sum(Amounts(merged.r1.cost), Amounts(merged.r2.cost))
\* C25 (amended): the same, for targets that do not hold one item as a
\* catalyst (chance 0) in one and with a chance in the other.
CatalystInOneTarget ==
    \E j \in DOMAIN merged.t1, k \in DOMAIN merged.t2 :
        /\ merged.t1[j].item = merged.t2[k].item
        /\ IsCatalyst(merged.t1[j]) # IsCatalyst(merged.t2[k])

C25_MergedCostIsSumNoCatalyst ==
    (NoCommonOutput /\ ~CatalystInOneTarget) =>
        Amounts(merged.both.cost)
            = Sum(Amounts(merged.r1.cost), Amounts(merged.r2.cost))

C25_Witness ==
    /\ NoCommonOutput
    /\ ~CatalystInOneTarget
    /\ merged.r1.produced = {"wood_plank"}
    /\ merged.r2.produced = {"wood_pulp"}
    /\ Amounts(merged.r1.cost)["wood_log"] = 1
    /\ Amounts(merged.r2.cost)["wood_log"] = 2
    /\ Amounts(merged.both.cost)["wood_log"] = 3
\* C26: a line that holds a command other than exit has its outcome
\* written as text and leaves the loop running; no exception leaves repl.
C26_OnlyExitEndsLoop ==
    [][(/\ Len(history') > Len(history)
        /\ history'[Len(history')] # <<>>
        /\ Head(history'[Len(history')]) # "exit") =>
           (/\ running'
            /\ raised' = ""
            /\ io' # io)]_vars
\* A demand for 3 of an item alone, resolved with no cache on an index.
Lone(item) == <<QStack(item, 3, 100, TRUE)>>

\* C27: once remove_recipe has taken a registered recipe off the index, a
\* demand for an item that no registered recipe produces any more is
\* resolved as a raw requirement: the call returns and the cost is the demand.
C27_RemovedProducerLeavesRaw ==
    [][(removes' = removes + 1 /\ added' # added) =>
           \A i \in Items :
               (\A s \in added' : i \notin DOMAIN RecipePool[s].outputs) =>
                   LET run == Resolve(back_table', Lone(i), EmptyInv)
                   IN  /\ run.status = "done"
                       /\ Amounts(run.cost) = [Zero EXCEPT ![i] = 3]]_vars

\* C29: remove_recipe of a recipe that is not registered leaves the two
\* tables and the trie as they were, and every resolution gives what it
\* gave before.
C29_FailedRemoveChangesNothing ==
    [][(removes' = removes + 1 /\ added' = added) =>
           /\ back_table' = back_table
           /\ forward_table' = forward_table
           /\ recipe_trie' = recipe_trie
           /\ \A tg \in Targets :
                  Resolve(back_table', tg, EmptyInv)
                      = Resolve(back_table, tg, EmptyInv)]_vars
\* C28: an enumeration run to completion leaves the trie as it was, so
\* that find_recipe_node, pop_recipe and a second enumeration answer after
\* it as they would have before it.
C28_EnumerationReadOnly ==
    [][enums' = enums + 1 =>
           /\ recipe_trie' = recipe_trie
           /\ \A r \in RecipeIds :
                  /\ FindRecipeNode(recipe_trie', r) = FindRecipeNode(recipe_trie, r)
                  /\ TriePopRecipe(recipe_trie', r) = TriePopRecipe(recipe_trie, r)
           /\ \A inputs \in EnumInputs :
                  GetPossibleRecipes(recipe_trie', inputs).yielded
                      = GetPossibleRecipes(recipe_trie, inputs).yielded]_vars
\* Every stack of the call has the chance 1: those of the target, of the
\* cache and of the recipes of the index.
AllChancesOne ==
    /\ \A k \in DOMAIN whole.target : whole.target[k].chance = 100
    /\ \A i \in DOMAIN whole.cache : whole.cache[i].chance = 100
    /\ \A r \in added :
           /\ \A i \in DOMAIN RecipePool[r].inputs :
                  RecipePool[r].inputs[i].chance = 100
           /\ \A i \in DOMAIN RecipePool[r].outputs :
                  RecipePool[r].outputs[i].chance = 100

\* C30: in a call that returns, with every chance 1, each item balances:
\* starting cache + cost + what the crafts put out
\*     = target + what the crafts asked for + leftover.
C30_MaterialBalance ==
    (whole.run.status = "done" /\ AllChancesOne) =>
        \A x \in Items :
            Amounts(whole.cache)[x] + Amounts(whole.run.cost)[x]
                + whole.run.outs[x]
            = Amounts(AsInv(whole.target))[x] + whole.run.ins[x]
                + Amounts(whole.run.leftover)[x]

C30_Witness ==
    /\ whole.run.status = "done"
    /\ AllChancesOne
    /\ whole.cache = One("wood_plank", 2, 100)
    /\ Amounts(AsInv(whole.target))["wood_plank"] = 64
    /\ whole.run.outs["wood_plank"] = 66
    /\ whole.run.outs["wood_pulp"] = 11
    /\ whole.run.ins["wood_log"] = 11
    /\ Amounts(whole.run.cost)["wood_log"] = 11
    /\ Amounts(whole.run.leftover)["wood_plank"] = 4
====
